---- MODULE Spec2Model ----
(***************************************************************************)
(* Model of flexget's Feed (src/feed.py): one run of one feed.  The feed   *)
(* validates its configuration, dispatches the modules of each event in    *)
(* priority order, purges rejected and failed entries after every module   *)
(* and filtered entries after every event, and can be aborted.             *)
(*                                                                         *)
(* A module body is foreign code: it is modelled as any sequence of calls  *)
(* of the feed's operations (accept, filter, reject, fail, abort, _purge,  *)
(* appending to feed.entries) that ends by returning, by raising a         *)
(* ModuleWarning, by raising another Exception, or by raising something    *)
(* that `except Exception` does not catch.  An entry is modelled by its    *)
(* identity: two entries are the same when Python finds them equal.        *)
(* The entries of a run are built from a (title, url) pair.                *)
(*                                                                         *)
(* The Entry class itself (a dict that keeps the first url as              *)
(* original_url) is modelled apart, under EntrySpec: one Entry and a       *)
(* holder that assigns its keys, uses the methods Entry inherits from dict *)
(* and asks for its safe_str().                                            *)
(***************************************************************************)
EXTENDS Integers, Sequences, FiniteSets, TLC

(* ------------------------------ bounds --------------------------------- *)

\* number of distinct entries a run can see
NumEntries == 2
\* total number of feed operations the module bodies of one run may call
MaxOps == 3
\* deepest nesting of __run_event calls followed
MaxDepth == 2

\* longest working set the modules may build
MaxEntries == NumEntries

\* the assignments made to one Entry, those of its construction included
MaxAssign == 3

EntryIds == 1..NumEntries

(* ------------------------- the module registry ------------------------- *)

\* manager.events: the events execute() iterates
events == <<"input", "filter", "download", "output">>

\* learning that skips "download" only
learn_skip_download == {"download"}

\* the events execute() skips when learning
learn_skip == {"download", "output"}

\* manager.modules, in the order get_modules_by_event lists them
Registry ==
  << [name |-> "A", builtin |-> FALSE,
      priorities |-> ("filter" :> 5 @@ "abort" :> 1),
      hooks |-> {"input", "filter", "terminate", "abort"}, validator |-> "ok"],
     [name |-> "B", builtin |-> FALSE, priorities |-> ("filter" :> 10),
      hooks |-> {"filter", "abort"}, validator |-> "none"],
     [name |-> "C", builtin |-> TRUE, priorities |-> ("filter" :> 5),
      hooks |-> {"filter", "output", "abort"}, validator |-> "broken"] >>

ModuleNames == {Registry[j].name : j \in 1..Len(Registry)}

\* manager.modules.get(keyword)
ModuleByName(n) == Registry[CHOOSE j \in 1..Len(Registry) : Registry[j].name = n]

\* the keys a configuration may hold: the modules and one unknown keyword
ConfigKeys == {"A", "B", "C", "alpha"}

\* the orders in which iterating the dict self.config can give its keys: the
\* order of a dict is left to the hashing
KeyOrders ==
  {s \in [1..Cardinality(ConfigKeys) -> ConfigKeys] :
     \A j, k \in 1..Cardinality(ConfigKeys) : s[j] = s[k] => j = k}

\* manager.get_modules_by_event(event): a fresh list in registry order
get_modules_by_event(event) ==
  SelectSeq(Registry, LAMBDA m : event \in m.hooks)

(* --------------------------- configuration ----------------------------- *)

\* a value of feed.config[keyword]; "absent" stands for a missing key
CfgAbsent == [kind |-> "absent", priority |-> 0]
CfgScalar == [kind |-> "scalar", priority |-> 0]
CfgInvalid == [kind |-> "invalid", priority |-> 0]
CfgDict == [kind |-> "dict", priority |-> 0]
CfgPriority(p) == [kind |-> "dictpriority", priority |-> p]

\* keyword in self.config
InConfig(cfg, k) == k \in DOMAIN cfg /\ cfg[k].kind # "absent"

(* ------------------------------ state ---------------------------------- *)

VARIABLES
  config,      \* feed.config
  options,     \* manager.options: validate, learn
  entries,     \* feed.entries
  accepted,    \* feed.accepted
  filtered,    \* feed.filtered
  rejected,    \* feed.rejected
  failed,      \* feed.failed
  abort,       \* feed.__abort
  purged,      \* feed.__purged
  add_failed,  \* the entries manager.add_failed was called with, in order
  errors,      \* validate_errors returned by validate()
  pc,          \* position of the feed's caller / of execute()
  evi,         \* index of execute()'s event loop
  stack,       \* the active __run_event calls, innermost last
  ops,         \* feed operations called by module bodies so far
  last_op,     \* the latest feed operation of the running module body:
               \* <<operation, entry, the verbose_details message it gave>>
  details,     \* the <<message, entry>> pairs verbose_details was called with
  trace,       \* dispatches, module invocations and module faults so far
  entry,       \* one Entry (a dict): a function from its keys to their values
  assigned,    \* what its holder did to it, construction included, in order:
               \* <<operation, key, value>>
  described    \* the latest call of entry.safe_str(): the dict it was called
               \* on and what the call gave

vars == <<config, options, entries, accepted, filtered, rejected, failed,
          abort, purged, add_failed, errors, pc, evi, stack, ops, last_op,
          details, trace, entry, assigned, described>>

feed_vars == <<config, options, entries, accepted, filtered, rejected, failed,
               abort, purged, add_failed, errors, pc, evi, stack, ops,
               last_op, details, trace>>

entry_vars == <<entry, assigned, described>>

InSeq(x, s) == \E j \in 1..Len(s) : s[j] = x

(* ------------------------------ purging -------------------------------- *)

\* list.remove(x): drop the first occurrence
RemoveFirst(s, x) ==
  LET k == CHOOSE j \in 1..Len(s) : s[j] = x /\ \A h \in 1..(j-1) : s[h] # x
  IN  SubSeq(s, 1, k-1) \o SubSeq(s, k+1, Len(s))

\* Feed.__purge: walk a copy of the working set, removing from the working
\* set every entry in lst and not in not_in_list; returns <<entries, count>>
RECURSIVE purge_loop(_, _, _, _, _)
purge_loop(copy, cur, n, lst, not_in_list) ==
  IF copy = <<>> THEN <<cur, n>>
  ELSE IF InSeq(Head(copy), lst) /\ ~InSeq(Head(copy), not_in_list)
       THEN purge_loop(Tail(copy), RemoveFirst(cur, Head(copy)), n + 1, lst, not_in_list)
       ELSE purge_loop(Tail(copy), cur, n, lst, not_in_list)

\* __purge walking feed.entries itself instead of a copy: the entry after a
\* removed one is skipped
RECURSIVE purge_live_loop(_, _, _, _, _)
purge_live_loop(cur, idx, n, lst, not_in_list) ==
  IF idx > Len(cur) THEN <<cur, n>>
  ELSE IF InSeq(cur[idx], lst) /\ ~InSeq(cur[idx], not_in_list)
       THEN purge_live_loop(RemoveFirst(cur, cur[idx]), idx + 1, n + 1, lst, not_in_list)
       ELSE purge_live_loop(cur, idx + 1, n, lst, not_in_list)

purge_live(ents, lst, not_in_list) == purge_live_loop(ents, 1, 0, lst, not_in_list)

purge(ents, lst, not_in_list) == purge_loop(ents, ents, 0, lst, not_in_list)

\* a rejected-purge that does not count what it removes
purge_rejected_uncounted(ents, rej) == <<purge(ents, rej, <<>>)[1], 0>>

\* Feed.__purge_rejected then Feed.__purge_failed, as __run_event runs them
purge_rejected(ents, rej) == purge(ents, rej, <<>>)
purge_failed(ents, fld) == purge(ents, fld, <<>>)[1]

\* Feed._purge: filtered entries that are not accepted
purge_filtered(ents, fil, acc) == purge(ents, fil, acc)

(* ------------------------ classification ------------------------------- *)

\* Feed.accept
accept_accepted(acc, fil, e) == IF InSeq(e, acc) THEN acc ELSE Append(acc, e)
\* accept() that leaves the entry in filtered
accept_filtered_kept(acc, fil, e) == fil

accept_filtered(acc, fil, e) ==
  IF ~InSeq(e, acc) /\ InSeq(e, fil) THEN RemoveFirst(fil, e) ELSE fil

accept_details(acc, fil, e) ==
  IF InSeq(e, acc) THEN ""
  ELSE IF InSeq(e, fil) THEN "Accepted previously filtered" ELSE "Accepted"

\* filter() that does not look at accepted
filter_filtered_unchecked(acc, fil, e) ==
  IF ~InSeq(e, fil) THEN Append(fil, e) ELSE fil

\* Feed.filter
filter_filtered(acc, fil, e) ==
  IF ~InSeq(e, fil) /\ ~InSeq(e, acc) THEN Append(fil, e) ELSE fil

filter_details(acc, fil, e) ==
  IF ~InSeq(e, fil) /\ ~InSeq(e, acc) THEN "Filtered" ELSE ""

\* reject() that withdraws the rejection of an entry rejected before
reject_rejected_toggling(rej, e) ==
  IF ~InSeq(e, rej) THEN Append(rej, e) ELSE RemoveFirst(rej, e)

\* Feed.reject
reject_rejected(rej, e) == IF ~InSeq(e, rej) THEN Append(rej, e) ELSE rej

reject_details(rej, e) == IF ~InSeq(e, rej) THEN "Rejected" ELSE ""

\* Feed.fail
fail_failed(fld, e) == IF ~InSeq(e, fld) THEN Append(fld, e) ELSE fld
\* fail() that notifies the manager on every call
fail_add_failed_always(fld, notified, e) == Append(notified, e)

fail_add_failed(fld, notified, e) ==
  IF ~InSeq(e, fld) THEN Append(notified, e) ELSE notified

fail_details(fld, e) == IF ~InSeq(e, fld) THEN "Failed" ELSE ""

\* the messages given so far, with the one of the call just made
add_details(d, msg, e) == IF msg = "" THEN d ELSE d \cup {<<msg, e>>}

\* no operation called yet
NoOp == <<"none", 0, "">>

(* --------------------------- scheduling -------------------------------- *)

\* __get_priority that ignores the configured priority
get_priority_default(cfg, module, event) ==
  IF event \in DOMAIN module.priorities THEN module.priorities[event] ELSE 0

\* Feed.__get_priority
get_priority(cfg, module, event) ==
  LET priority == IF event \in DOMAIN module.priorities
                  THEN module.priorities[event] ELSE 0
  IN  IF InConfig(cfg, module.name) /\ cfg[module.name].kind = "dictpriority"
      THEN cfg[module.name].priority
      ELSE priority

\* cmp(a, b)
cmp(a, b) == IF a < b THEN -1 ELSE IF a > b THEN 1 ELSE 0

\* Feed.__sort_modules
sort_modules(cfg, a, b, event) ==
  cmp(get_priority(cfg, a, event), get_priority(cfg, b, event))

\* list.sort(cmpfunc): a stable ascending sort
RECURSIVE list_sort(_, _, _)
list_sort(cfg, mods, event) ==
  IF mods = <<>> THEN <<>>
  ELSE LET rest == list_sort(cfg, SubSeq(mods, 1, Len(mods) - 1), event)
           m == mods[Len(mods)]
           k == Cardinality({j \in 1..Len(rest) :
                               sort_modules(cfg, rest[j], m, event) <= 0})
       IN  SubSeq(rest, 1, k) \o <<m>> \o SubSeq(rest, k + 1, Len(rest))

\* list.reverse()
list_reverse(s) == [j \in 1..Len(s) |-> s[Len(s) + 1 - j]]

\* a single stable descending sort instead of sort-then-reverse
RECURSIVE stable_descending(_, _, _)
stable_descending(cfg, mods, event) ==
  IF mods = <<>> THEN <<>>
  ELSE LET rest == stable_descending(cfg, SubSeq(mods, 1, Len(mods) - 1), event)
           m == mods[Len(mods)]
           k == Cardinality({j \in 1..Len(rest) :
                               sort_modules(cfg, rest[j], m, event) >= 0})
       IN  SubSeq(rest, 1, k) \o <<m>> \o SubSeq(rest, k + 1, Len(rest))

sorted_modules_stable(cfg, event) ==
  LET sorted == stable_descending(cfg, get_modules_by_event(event), event)
  IN  [j \in 1..Len(sorted) |-> sorted[j].name]

\* the first three statements of Feed.__run_event: the names of the modules
\* of the event in dispatch order
sorted_modules(cfg, event) ==
  LET sorted == list_reverse(list_sort(cfg, get_modules_by_event(event), event))
  IN  [j \in 1..Len(sorted) |-> sorted[j].name]

\* a module loop that calls every module of the event
applicable_always(cfg, name) == TRUE

\* keyword in self.config or module['builtin']
applicable(cfg, name) == InConfig(cfg, name) \/ ModuleByName(name).builtin

(* ---------------------------- validation ------------------------------- *)

\* validate() that skips an unknown keyword without recording it
keyword_errors_known(cfg, k) ==
  IF ~InConfig(cfg, k) \/ k \notin ModuleNames THEN <<>>
  ELSE IF ModuleByName(k).validator = "ok" /\ cfg[k].kind = "invalid"
       THEN << k \o " " \o "invalid value" >>
       ELSE <<>>

\* the messages Feed.validate collects for one keyword
keyword_errors(cfg, k) ==
  IF ~InConfig(cfg, k) THEN <<>>
  ELSE IF k \notin ModuleNames THEN << "Unknown keyword '" \o k \o "'" >>
  ELSE IF ModuleByName(k).validator = "ok" /\ cfg[k].kind = "invalid"
       THEN << k \o " " \o "invalid value" >>
       ELSE <<>>

\* Feed.validate: the messages of all keywords of the configuration, for the
\* order keys in which `for keyword in self.config` visits them
RECURSIVE validate_from(_, _, _)
validate_from(cfg, keys, j) ==
  IF j > Len(keys) THEN <<>>
  ELSE keyword_errors(cfg, keys[j]) \o validate_from(cfg, keys, j + 1)

validate(cfg, keys) == validate_from(cfg, keys, 1)

(* ------------------------------ frames --------------------------------- *)

\* one call of __run_event: its event, its sorted modules, the index of the
\* module loop, the position in the loop's turn, and how the latest module
\* call of the loop ended
NewFrame(event) ==
  [event |-> event, mods |-> sorted_modules(config, event), i |-> 1,
   pc |-> "loop", outcome |-> "none"]

Top == stack[Len(stack)]
SetTop(f) == [stack EXCEPT ![Len(stack)] = f]

Rec(kind, event, module) == [kind |-> kind, event |-> event, module |-> module]

\* where the caller of the outermost __run_event continues
Continue(p) ==
  CASE p = "validate_abort" -> "validated"
    [] p = "run_event" -> "phase_end"
    [] p = "terminating" -> "terminated"
    [] OTHER -> p

\* Feed.abort called with the stack stk, the caller's position p and the
\* trace tr: set the flag and dispatch 'abort'.  The nesting of __run_event
\* calls is followed up to MaxDepth.
abort_call(stk, p, tr) ==
  /\ Len(stk) < MaxDepth
  /\ abort' = TRUE
  /\ stack' = Append(stk, NewFrame("abort"))
  /\ pc' = p
  /\ trace' = Append(tr, Rec("dispatch", "abort", "-"))

(* ------------------------------- Entry --------------------------------- *)

\* the keys and values tried on an Entry
EntryKeys == {"title", "url", "original_url", "imdb_url"}

EntryValues == {"v1", "v2"}

\* an empty dict: the function with no key
EmptyDict == [k \in {} |-> ""]

\* dict.__setitem__
dict_setitem(d, key, value) ==
  [k \in (DOMAIN d) \cup {key} |-> IF k = key THEN value ELSE d[k]]

\* Entry.__setitem__ storing original_url at every assignment of url
setitem_overwriting(d, key, value) ==
  IF key = "url"
  THEN dict_setitem(dict_setitem(d, "original_url", value), key, value)
  ELSE dict_setitem(d, key, value)

\* Entry.__setitem__: the first assignment of url is kept as original_url
setitem(d, key, value) ==
  IF key = "url" /\ "original_url" \notin DOMAIN d
  THEN dict_setitem(dict_setitem(d, "original_url", value), key, value)
  ELSE dict_setitem(d, key, value)

\* dict.__delitem__, which Entry inherits
dict_delitem(d, key) == [k \in (DOMAIN d) \ {key} |-> d[k]]

\* Entry.__init__(*args): a (title, url) pair is assigned, anything else is
\* ignored
Entry_init(args) ==
  IF Len(args) = 2
  THEN setitem(setitem(EmptyDict, "title", args[1]), "url", args[2])
  ELSE EmptyDict

\* the assignments Entry.__init__ makes
init_assigned(args) ==
  IF Len(args) = 2
  THEN << <<"set", "title", args[1]>>, <<"set", "url", args[2]>> >>
  ELSE <<>>

\* Entry.safe_str: "%s | %s" % (self['title'], self['url']); reading a key
\* the dict does not have raises KeyError
safe_str(d) ==
  IF "title" \notin DOMAIN d \/ "url" \notin DOMAIN d
  THEN [raised |-> "KeyError", value |-> ""]
  ELSE [raised |-> "", value |-> d["title"] \o " | " \o d["url"]]

\* no call of safe_str yet
NotDescribed == [called |-> FALSE, of |-> EmptyDict, raised |-> "", value |-> ""]

(* ------------------------------- Init ---------------------------------- *)

Configs ==
  { [k \in {"A", "B", "C", "alpha"} |->
       CASE k = "A" -> a [] k = "B" -> b [] k = "C" -> c [] OTHER -> u] :
    a \in {CfgAbsent, CfgDict, CfgInvalid, CfgPriority(10)},
    b \in {CfgScalar},
    c \in {CfgAbsent},
    u \in {CfgAbsent, CfgScalar} }

\* manager.options; learning is tried with one valid configuration
Options(cfg) ==
  { o \in [validate : BOOLEAN, learn : BOOLEAN] :
      o.learn => (~o.validate /\ cfg["A"] = CfgAbsent /\ cfg["alpha"] = CfgAbsent) }

Init ==
  /\ config \in Configs
  /\ options \in Options(config)
  /\ entries = <<>>
  /\ accepted = <<>>
  /\ filtered = <<>>
  /\ rejected = <<>>
  /\ failed = <<>>
  /\ abort = FALSE
  /\ purged = 0
  /\ add_failed = <<>>
  /\ errors = <<>>
  /\ pc = "created"
  /\ evi = 0
  /\ stack = <<>>
  /\ ops = 0
  /\ last_op = NoOp
  /\ details = {}
  /\ trace = <<>>
  /\ entry = EmptyDict
  /\ assigned = <<>>
  /\ described = NotDescribed

(* --------------------------- Feed.execute ------------------------------ *)

\* execute(): errors = self.validate(), which aborts when it found errors
Validate ==
  /\ pc = "created"
  /\ \E keys \in KeyOrders :
       /\ errors' = validate(config, keys)
       /\ IF validate(config, keys) # <<>>
          THEN abort_call(stack, "validate_abort", trace)
          ELSE /\ pc' = "validated"
               /\ UNCHANGED <<abort, stack, trace>>
  /\ UNCHANGED <<last_op, details, config, options, entries, accepted, filtered, rejected,
                 failed, purged, add_failed, evi, ops>>
  /\ UNCHANGED entry_vars

\* execute() without the early return of a validate-only run
ExecuteStart_unflagged ==
  /\ pc = "validated"
  /\ IF abort
     THEN pc' = "idle" /\ evi' = evi
     ELSE pc' = "events" /\ evi' = 1
  /\ UNCHANGED <<last_op, details, config, options, entries, accepted, filtered, rejected,
                 failed, abort, purged, add_failed, errors, stack, ops, trace>>
  /\ UNCHANGED entry_vars

\* execute(): the two early returns after validation
ExecuteStart ==
  /\ pc = "validated"
  /\ IF abort \/ (options.validate /\ errors = <<>>)
     THEN pc' = "idle" /\ evi' = evi
     ELSE pc' = "events" /\ evi' = 1
  /\ UNCHANGED <<last_op, details, config, options, entries, accepted, filtered, rejected,
                 failed, abort, purged, add_failed, errors, stack, ops, trace>>
  /\ UNCHANGED entry_vars

\* execute(): head of the event loop
EventStep ==
  /\ pc = "events"
  /\ IF evi > Len(events)
     THEN /\ pc' = "idle"
          /\ UNCHANGED <<evi, stack, trace>>
     ELSE IF options.learn /\ events[evi] \in learn_skip
     THEN /\ evi' = evi + 1
          /\ UNCHANGED <<pc, stack, trace>>
     ELSE /\ stack' = Append(stack, NewFrame(events[evi]))
          /\ trace' = Append(trace, Rec("dispatch", events[evi], "-"))
          /\ pc' = "run_event"
          /\ evi' = evi
  /\ UNCHANGED <<last_op, details, config, options, entries, accepted, filtered, rejected,
                 failed, abort, purged, add_failed, errors, ops>>
  /\ UNCHANGED entry_vars

\* execute() checking the abort flag before self._purge() instead of after
EventEnd_abort_first ==
  /\ pc = "phase_end"
  /\ LET r == purge_filtered(entries, filtered, accepted)
     IN  IF abort
         THEN UNCHANGED <<entries, purged>>
         ELSE /\ entries' = r[1]
              /\ purged' = purged + r[2]
  /\ IF abort
     THEN pc' = "idle" /\ evi' = evi
     ELSE pc' = "events" /\ evi' = evi + 1
  /\ UNCHANGED <<last_op, details, config, options, accepted, filtered, rejected, failed,
                 abort, add_failed, errors, stack, ops, trace>>
  /\ UNCHANGED entry_vars

\* execute(): after __run_event returned: self._purge(), then the abort check
EventEnd ==
  /\ pc = "phase_end"
  /\ LET r == purge_filtered(entries, filtered, accepted)
     IN  /\ entries' = r[1]
         /\ purged' = purged + r[2]
  /\ IF abort
     THEN pc' = "idle" /\ evi' = evi
     ELSE pc' = "events" /\ evi' = evi + 1
  /\ UNCHANGED <<last_op, details, config, options, accepted, filtered, rejected, failed,
                 abort, add_failed, errors, stack, ops, trace>>
  /\ UNCHANGED entry_vars

\* the body of Feed.terminate, for a value of the abort flag
terminate(aborted) ==
  /\ pc = "idle"
  /\ IF aborted
     THEN /\ pc' = "terminated"
          /\ UNCHANGED <<stack, trace>>
     ELSE /\ stack' = Append(stack, NewFrame("terminate"))
          /\ trace' = Append(trace, Rec("dispatch", "terminate", "-"))
          /\ pc' = "terminating"
  /\ UNCHANGED <<last_op, details, config, options, entries, accepted, filtered, rejected,
                 failed, abort, purged, add_failed, errors, evi, ops>>
  /\ UNCHANGED entry_vars

\* terminate() without its abort check
Terminate_unguarded == terminate(FALSE)

\* terminate() with its abort check inverted
Terminate_inverted == terminate(~abort)

\* Feed.terminate
Terminate == terminate(abort)

(* -------------------------- Feed.__run_event --------------------------- *)

\* head of the module loop: return, skip an unconfigured module, or call
RunLoop ==
  /\ stack # <<>>
  /\ Top.pc = "loop"
  /\ IF Top.i > Len(Top.mods)
     THEN /\ stack' = SubSeq(stack, 1, Len(stack) - 1)
          /\ pc' = IF Len(stack) = 1 THEN Continue(pc) ELSE pc
          /\ trace' = trace
     ELSE IF applicable(config, Top.mods[Top.i])
     THEN /\ stack' = SetTop([Top EXCEPT !.pc = "body", !.outcome = "none"])
          /\ trace' = Append(trace, Rec("invoke", Top.event, Top.mods[Top.i]))
          /\ pc' = pc
     ELSE /\ stack' = SetTop([Top EXCEPT !.i = @ + 1])
          /\ UNCHANGED <<pc, trace>>
  /\ UNCHANGED <<last_op, details, config, options, entries, accepted, filtered, rejected,
                 failed, abort, purged, add_failed, errors, evi, ops>>
  /\ UNCHANGED entry_vars

InBody == stack # <<>> /\ Top.pc = "body"

\* the entries a module can hold: those of the working set and of the four
\* lists of the feed
Known(e) ==
  \/ InSeq(e, entries) \/ InSeq(e, accepted) \/ InSeq(e, filtered)
  \/ InSeq(e, rejected) \/ InSeq(e, failed)

\* the module appends entries to feed.entries
ProduceBatches == {[j \in 1..n |-> j] : n \in 1..NumEntries}

ModuleProduce(s) ==
  /\ InBody
  /\ ops < MaxOps
  /\ Len(entries) + Len(s) <= MaxEntries
  /\ entries' = entries \o s
  /\ ops' = ops + 1
  /\ last_op' = <<"produce", Len(s), "">>
  /\ UNCHANGED <<details, config, options, accepted, filtered, rejected, failed, abort,
                 purged, add_failed, errors, pc, evi, stack, trace>>
  /\ UNCHANGED entry_vars

ModuleAccept(e) ==
  /\ InBody
  /\ Known(e)
  /\ ops < MaxOps
  /\ accepted' = accept_accepted(accepted, filtered, e)
  /\ filtered' = accept_filtered(accepted, filtered, e)
  /\ ops' = ops + 1
  /\ details' = add_details(details, accept_details(accepted, filtered, e), e)
  /\ last_op' = <<"accept", e, accept_details(accepted, filtered, e)>>
  /\ UNCHANGED <<config, options, entries, rejected, failed, abort, purged,
                 add_failed, errors, pc, evi, stack, trace>>
  /\ UNCHANGED entry_vars

ModuleFilter(e) ==
  /\ InBody
  /\ Known(e)
  /\ ops < MaxOps
  /\ filtered' = filter_filtered(accepted, filtered, e)
  /\ ops' = ops + 1
  /\ details' = add_details(details, filter_details(accepted, filtered, e), e)
  /\ last_op' = <<"filter", e, filter_details(accepted, filtered, e)>>
  /\ UNCHANGED <<config, options, entries, accepted, rejected, failed, abort,
                 purged, add_failed, errors, pc, evi, stack, trace>>
  /\ UNCHANGED entry_vars

ModuleReject(e) ==
  /\ InBody
  /\ Known(e)
  /\ ops < MaxOps
  /\ rejected' = reject_rejected(rejected, e)
  /\ ops' = ops + 1
  /\ details' = add_details(details, reject_details(rejected, e), e)
  /\ last_op' = <<"reject", e, reject_details(rejected, e)>>
  /\ UNCHANGED <<config, options, entries, accepted, filtered, failed, abort,
                 purged, add_failed, errors, pc, evi, stack, trace>>
  /\ UNCHANGED entry_vars

ModuleFail(e) ==
  /\ InBody
  /\ Known(e)
  /\ ops < MaxOps
  /\ failed' = fail_failed(failed, e)
  /\ add_failed' = fail_add_failed(failed, add_failed, e)
  /\ ops' = ops + 1
  /\ details' = add_details(details, fail_details(failed, e), e)
  /\ last_op' = <<"fail", e, fail_details(failed, e)>>
  /\ UNCHANGED <<config, options, entries, accepted, filtered, rejected, abort,
                 purged, errors, pc, evi, stack, trace>>
  /\ UNCHANGED entry_vars

\* the module calls feed._purge() itself ("only if you know what you're
\* doing"): the filtered entries that are not accepted leave at once
ModulePurge ==
  /\ InBody
  /\ ops < MaxOps
  /\ LET r == purge_filtered(entries, filtered, accepted)
     IN  /\ entries' = r[1]
         /\ purged' = purged + r[2]
  /\ ops' = ops + 1
  /\ last_op' = <<"purge", 0, "">>
  /\ UNCHANGED <<details, config, options, accepted, filtered, rejected, failed,
                 abort, add_failed, errors, pc, evi, stack, trace>>
  /\ UNCHANGED entry_vars

\* the module calls feed.abort() itself and goes on when it returns
ModuleAbort ==
  /\ InBody
  /\ ops < MaxOps
  /\ ops' = ops + 1
  /\ last_op' = <<"abort", 0, "">>
  /\ abort_call(stack, pc, trace)
  /\ UNCHANGED <<details, config, options, entries, accepted, filtered, rejected,
                 failed, purged, add_failed, errors, evi>>
  /\ UNCHANGED entry_vars

\* the module method returns
ModuleReturn ==
  /\ InBody
  /\ stack' = SetTop([Top EXCEPT !.pc = "purge", !.outcome = "return"])
  /\ last_op' = NoOp
  /\ UNCHANGED <<details, config, options, entries, accepted, filtered, rejected,
                 failed, abort, purged, add_failed, errors, pc, evi, ops, trace>>
  /\ UNCHANGED entry_vars

\* a ModuleWarning handled like any other exception: self.abort()
ModuleWarn_aborting ==
  /\ InBody
  /\ abort_call(SetTop([Top EXCEPT !.pc = "purge", !.outcome = "warning"]), pc, trace)
  /\ last_op' = NoOp
  /\ UNCHANGED <<details, config, options, entries, accepted, filtered, rejected,
                 failed, purged, add_failed, errors, evi, ops>>
  /\ UNCHANGED entry_vars

\* the module method raises ModuleWarning: logged, nothing else
ModuleWarn ==
  /\ InBody
  /\ stack' = SetTop([Top EXCEPT !.pc = "purge", !.outcome = "warning"])
  /\ last_op' = NoOp
  /\ UNCHANGED <<details, config, options, entries, accepted, filtered, rejected,
                 failed, abort, purged, add_failed, errors, pc, evi, ops, trace>>
  /\ UNCHANGED entry_vars

\* the module method raises another exception: logged, then self.abort()
ModuleFault ==
  /\ InBody
  /\ abort_call(SetTop([Top EXCEPT !.pc = "purge", !.outcome = "fault"]), pc,
                Append(trace, Rec("fault", Top.event, Top.mods[Top.i])))
  /\ last_op' = NoOp
  /\ UNCHANGED <<details, config, options, entries, accepted, filtered, rejected,
                 failed, purged, add_failed, errors, evi, ops>>
  /\ UNCHANGED entry_vars

\* the module method raises what `except Exception` does not catch (a
\* KeyboardInterrupt, a SystemExit): it leaves __run_event and the calls
\* that enclose it, with no abort and no purge.  A module body that had
\* called feed.abort() may catch it (except BaseException) and go on: the
\* stack is cut back to that body; if none does, it leaves execute() or
\* terminate().
ModuleEscape ==
  /\ InBody
  /\ \E k \in 0..(Len(stack) - 1) :
       /\ k > 0 => stack[k].pc = "body"
       /\ stack' = SubSeq(stack, 1, k)
       /\ pc' = IF k = 0 THEN "raised" ELSE pc
       /\ last_op' = IF k = 0 THEN NoOp ELSE last_op
  /\ UNCHANGED <<details, config, options, entries, accepted, filtered, rejected,
                 failed, abort, purged, add_failed, errors, evi, ops, trace>>
  /\ UNCHANGED entry_vars

\* the end of one turn of the module loop, for a value of the abort flag
after_call(aborted) ==
  /\ stack # <<>>
  /\ Top.pc = "purge"
  /\ LET r == purge_rejected(entries, rejected)
     IN  /\ entries' = purge_failed(r[1], failed)
         /\ purged' = purged + r[2]
  /\ IF aborted
     THEN /\ stack' = SubSeq(stack, 1, Len(stack) - 1)
          /\ pc' = IF Len(stack) = 1 THEN Continue(pc) ELSE pc
     ELSE /\ stack' = SetTop([Top EXCEPT !.pc = "loop", !.i = @ + 1])
          /\ pc' = pc
  /\ UNCHANGED <<last_op, details, config, options, accepted, filtered, rejected,
                 failed, abort, add_failed, errors, evi, ops, trace>>
  /\ UNCHANGED entry_vars

\* the module loop without its abort check
Purge_unchecked == after_call(FALSE)

\* the module loop purging the filtered entries too after every call
Purge_filtered_too ==
  /\ stack # <<>>
  /\ Top.pc = "purge"
  /\ LET r == purge_rejected(entries, rejected)
         f == purge_filtered(purge_failed(r[1], failed), filtered, accepted)
     IN  /\ entries' = f[1]
         /\ purged' = purged + r[2] + f[2]
  /\ IF abort
     THEN /\ stack' = SubSeq(stack, 1, Len(stack) - 1)
          /\ pc' = IF Len(stack) = 1 THEN Continue(pc) ELSE pc
     ELSE /\ stack' = SetTop([Top EXCEPT !.pc = "loop", !.i = @ + 1])
          /\ pc' = pc
  /\ UNCHANGED <<last_op, details, config, options, accepted, filtered, rejected,
                 failed, abort, add_failed, errors, evi, ops, trace>>
  /\ UNCHANGED entry_vars

\* after the call: purge rejected, purge failed, then the abort check
Purge == after_call(abort)

Next ==
  \/ Validate
  \/ ExecuteStart
  \/ EventStep
  \/ EventEnd
  \/ Terminate
  \/ RunLoop
  \/ \E s \in ProduceBatches : ModuleProduce(s)
  \/ \E e \in EntryIds : ModuleAccept(e)
  \/ \E e \in EntryIds : ModuleFilter(e)
  \/ \E e \in EntryIds : ModuleReject(e)
  \/ \E e \in EntryIds : ModuleFail(e)
  \/ ModulePurge
  \/ ModuleAbort
  \/ ModuleReturn
  \/ ModuleWarn
  \/ ModuleFault
  \/ ModuleEscape
  \/ Purge

Spec == Init /\ [][Next]_vars

(* --------------------- one Entry and its holder ------------------------ *)

\* the arguments Entry(...) is constructed with
EntryArgs ==
  {<<>>} \cup {<<"v1">>} \cup {<<t, u>> : t \in {"t1"}, u \in EntryValues}

\* a fresh feed holding no entry, and one Entry just constructed
EntryInit ==
  /\ config = [k \in {"A", "B", "C", "alpha"} |-> CfgAbsent]
  /\ options = [validate |-> FALSE, learn |-> FALSE]
  /\ entries = <<>>
  /\ accepted = <<>>
  /\ filtered = <<>>
  /\ rejected = <<>>
  /\ failed = <<>>
  /\ abort = FALSE
  /\ purged = 0
  /\ add_failed = <<>>
  /\ errors = <<>>
  /\ pc = "created"
  /\ evi = 0
  /\ stack = <<>>
  /\ ops = 0
  /\ last_op = NoOp
  /\ details = {}
  /\ trace = <<>>
  /\ \E args \in EntryArgs :
       /\ entry = Entry_init(args)
       /\ assigned = init_assigned(args)
  /\ described = NotDescribed

\* entry[key] = value
EntrySet(key, value) ==
  /\ Len(assigned) < MaxAssign
  /\ entry' = setitem(entry, key, value)
  /\ assigned' = Append(assigned, <<"set", key, value>>)
  /\ UNCHANGED described
  /\ UNCHANGED feed_vars

\* entry.update({key: value}): dict.update, which Entry inherits, stores the
\* value without calling Entry.__setitem__
EntryUpdate(key, value) ==
  /\ Len(assigned) < MaxAssign
  /\ entry' = dict_setitem(entry, key, value)
  /\ assigned' = Append(assigned, <<"update", key, value>>)
  /\ UNCHANGED described
  /\ UNCHANGED feed_vars

\* entry.setdefault(key, value): inherited; stores the value if the key is
\* absent, without calling Entry.__setitem__
EntrySetDefault(key, value) ==
  /\ Len(assigned) < MaxAssign
  /\ entry' = IF key \in DOMAIN entry THEN entry ELSE dict_setitem(entry, key, value)
  /\ assigned' = Append(assigned, <<"setdefault", key, value>>)
  /\ UNCHANGED described
  /\ UNCHANGED feed_vars

\* del entry[key], entry.pop(key), or entry.popitem() giving that key:
\* inherited; the key leaves the dict
EntryDel(key) ==
  /\ Len(assigned) < MaxAssign
  /\ key \in DOMAIN entry
  /\ entry' = dict_delitem(entry, key)
  /\ assigned' = Append(assigned, <<"del", key, "">>)
  /\ UNCHANGED described
  /\ UNCHANGED feed_vars

\* entry.clear(): inherited
EntryClear ==
  /\ Len(assigned) < MaxAssign
  /\ entry' = EmptyDict
  /\ assigned' = Append(assigned, <<"clear", "", "">>)
  /\ UNCHANGED described
  /\ UNCHANGED feed_vars

\* entry.safe_str(), as Feed.__purge calls it for its debug line
EntryDescribe ==
  /\ described' = [called |-> TRUE, of |-> entry,
                   raised |-> safe_str(entry).raised,
                   value |-> safe_str(entry).value]
  /\ UNCHANGED <<entry, assigned>>
  /\ UNCHANGED feed_vars

EntryNext ==
  \/ \E key \in EntryKeys, value \in EntryValues : EntrySet(key, value)
  \/ \E key \in EntryKeys, value \in EntryValues : EntryUpdate(key, value)
  \/ \E key \in EntryKeys, value \in EntryValues : EntrySetDefault(key, value)
  \/ \E key \in EntryKeys : EntryDel(key)
  \/ EntryClear
  \/ EntryDescribe

EntrySpec == EntryInit /\ [][EntryNext]_vars

(* ----------------------- reading the trace ----------------------------- *)

RegularEvents == {events[j] : j \in 1..Len(events)}

RegistryIndex(n) == CHOOSE j \in 1..Len(Registry) : Registry[j].name = n

\* the modules invoked so far for an event, in the order of their invocation
InvokedFor(event) ==
  LET recs == SelectSeq(trace, LAMBDA r : r.kind = "invoke" /\ r.event = event)
  IN  [j \in 1..Len(recs) |-> recs[j].module]

\* how many times an event was dispatched so far
Dispatched(event) ==
  Len(SelectSeq(trace, LAMBDA r : r.kind = "dispatch" /\ r.event = event))

\* a module of a regular event raised an exception other than ModuleWarning
RegularFault ==
  \E j \in 1..Len(trace) : trace[j].kind = "fault" /\ trace[j].event \in RegularEvents

\* a module of a regular event was invoked
RegularInvoked ==
  \E j \in 1..Len(trace) : trace[j].kind = "invoke" /\ trace[j].event \in RegularEvents

NoDuplicates(s) == \A j, k \in 1..Len(s) : s[j] = s[k] => j = k

Occurrences(s, x) == Cardinality({j \in 1..Len(s) : s[j] = x})

(* ------------------------------ claims --------------------------------- *)

\* C1: when the purge step that follows a module call (rejected-purge, then
\* failed-purge) finishes, no rejected entry is left in the working set,
\* accepted or not.
C1_RejectedPurgedAfterModule ==
  [][ (stack # <<>> /\ stack[Len(stack)].pc = "purge")
        => \A e \in EntryIds : InSeq(e, rejected') => ~InSeq(e, entries') ]_vars

\* C1 witness: inside an event, after a module's purge step: NumEntries
\* entries were produced, one of them was accepted and rejected, and the
\* rejected-purge (the only counted removal so far) took it out.
C1_Witness ==
  /\ pc = "run_event" /\ Len(stack) = 1 /\ stack[1].pc = "loop" /\ stack[1].i > 1
  /\ ~abort /\ filtered = <<>> /\ failed = <<>> /\ purged = 1
  /\ Len(entries) = NumEntries - 1
  /\ \E e \in EntryIds :
       InSeq(e, rejected) /\ InSeq(e, accepted) /\ ~InSeq(e, entries)

\* C2: no entry is ever in accepted and in filtered at once.
C2_AcceptedFilteredDisjoint ==
  \A e \in EntryIds : ~(InSeq(e, accepted) /\ InSeq(e, filtered))

\* C2 witness: a module has just called filter(e) on an accepted entry; the
\* call gave no message and e is in accepted only.
C2_Witness ==
  \E e \in EntryIds :
    /\ last_op = <<"filter", e, "">>
    /\ InSeq(e, accepted)
    /\ ~InSeq(e, filtered)

\* C3 as stated: two modules of equal effective priority invoked in one
\* dispatch of an event are invoked in their registry order.
C3_TiesKeepRegistryOrder ==
  \A v \in RegularEvents \cup {"terminate"} :
    LET invoked == InvokedFor(v)
    IN  \A q \in 1..Len(invoked) : \A p \in 1..(q - 1) :
          get_priority(config, ModuleByName(invoked[p]), v)
              = get_priority(config, ModuleByName(invoked[q]), v)
            => RegistryIndex(invoked[p]) < RegistryIndex(invoked[q])

\* C3 amended: two modules of equal effective priority invoked in one
\* dispatch of an event are invoked in the reverse of their registry order
\* (registry A 5, B 10, C 5 is dispatched B, C, A).
C3_TiesReverseRegistryOrder ==
  \A v \in RegularEvents \cup {"terminate"} :
    LET invoked == InvokedFor(v)
    IN  \A q \in 1..Len(invoked) : \A p \in 1..(q - 1) :
          get_priority(config, ModuleByName(invoked[p]), v)
              = get_priority(config, ModuleByName(invoked[q]), v)
            => RegistryIndex(invoked[p]) > RegistryIndex(invoked[q])

\* C3 witness: with A (5), B (10) and C (5) all dispatched for "filter", the
\* three were invoked in the order B, C, A.
C3_Witness ==
  /\ config["A"] = CfgDict
  /\ InvokedFor("filter") = <<"B", "C", "A">>

\* the effective priority as C4 words it
C4_EffectivePriority(name, event) ==
  IF name \in DOMAIN config /\ config[name].kind = "dictpriority"
  THEN config[name].priority
  ELSE IF event \in DOMAIN ModuleByName(name).priorities
       THEN ModuleByName(name).priorities[event]
       ELSE 0

\* C4: of two modules invoked for the same event, the one invoked first does
\* not have the lower effective priority.
C4_HigherPriorityFirst ==
  LET invoked == SelectSeq(trace, LAMBDA r : r.kind = "invoke")
  IN  \A q \in 1..Len(invoked) : \A p \in 1..(q - 1) :
        invoked[p].event = invoked[q].event
          => C4_EffectivePriority(invoked[p].module, invoked[p].event)
               >= C4_EffectivePriority(invoked[q].module, invoked[q].event)

\* C4 witness: A's configured priority 10 overrides its default 5, and A was
\* invoked before C (5) and after B (10) in "filter".
C4_Witness ==
  /\ config["A"] = CfgPriority(10)
  /\ InvokedFor("filter") = <<"B", "A", "C">>

\* C5: once set, the abort flag stays set, and no module of a regular event
\* is invoked from then on.
C5_AbortStopsRegularEvents ==
  [][ abort =>
        /\ abort'
        /\ \A k \in (Len(trace) + 1)..Len(trace') :
             ~(trace'[k].kind = "invoke" /\ trace'[k].event \in RegularEvents) ]_vars

\* C5 witness: execute() has returned after the first module of "filter",
\* B, raised an exception; A and C and the later events were not invoked.
C5_Witness ==
  /\ pc = "idle" /\ abort
  /\ config["A"] = CfgDict
  /\ InvokedFor("filter") = <<"B">>
  /\ InvokedFor("output") = <<>>
  /\ \E j \in 1..Len(trace) :
       trace[j] = Rec("fault", "filter", "B")

\* C6 as stated: after a module fault in a regular event, terminate() has
\* dispatched the terminate event exactly once.
C6_TerminateRunsAfterFault ==
  (pc = "terminated" /\ RegularFault) => Dispatched("terminate") = 1

\* C6 amended: after a module fault in a regular event, the terminate event
\* is never dispatched and none of its modules is invoked: terminate()
\* returns at once.
C6_NoTerminateAfterFault ==
  RegularFault =>
    /\ Dispatched("terminate") = 0
    /\ InvokedFor("terminate") = <<>>
    /\ pc # "terminating"

\* C6 witness: terminate() has returned in a run whose "filter" event had a
\* module fault.
C6_Witness ==
  /\ pc = "terminated"
  /\ \E j \in 1..Len(trace) : trace[j].kind = "fault" /\ trace[j].event = "filter"

\* C7: terminate() with the abort flag set changes nothing; without it, it
\* dispatches the terminate event like any other: the modules of the event
\* in dispatch order, starting at the first.
C7_TerminateFrame ==
  [][ pc = "idle" =>
        /\ entries' = entries /\ accepted' = accepted /\ filtered' = filtered
        /\ rejected' = rejected /\ failed' = failed /\ abort' = abort
        /\ purged' = purged
        /\ IF abort
           THEN trace' = trace /\ stack' = stack /\ pc' = "terminated"
           ELSE /\ trace' = Append(trace, Rec("dispatch", "terminate", "-"))
                /\ Len(stack') = 1
                /\ stack'[1].event = "terminate"
                /\ stack'[1].mods = sorted_modules(config, "terminate")
                /\ stack'[1].i = 1 ]_vars

\* C7 witness: terminate() has returned with the abort flag set, a working
\* set that is not empty, and no dispatch of the terminate event.
C7_Witness ==
  /\ pc = "terminated" /\ abort
  /\ entries # <<>>
  /\ Dispatched("terminate") = 0

\* C8: when validate() returns the abort flag is set exactly if it collected
\* an error; an unknown keyword gives exactly one "Unknown keyword" error;
\* and a run whose validation collected an error invokes no module of a
\* regular event.
C8_ValidationAborts ==
  /\ pc \in {"validate_abort", "validated"} => (abort <=> errors # <<>>)
  /\ pc # "created" =>
       \A k \in ConfigKeys :
         k \notin ModuleNames =>
           Occurrences(errors, "Unknown keyword '" \o k \o "'")
             = IF InConfig(config, k) THEN 1 ELSE 0
  /\ errors # <<>> =>
       /\ ~RegularInvoked
       /\ \A v \in RegularEvents : Dispatched(v) = 0
       /\ pc \notin {"events", "run_event", "phase_end"}

\* C8 witness: execute() has returned for a configuration whose only defect
\* is the unknown keyword alpha.
C8_Witness ==
  /\ pc = "idle" /\ abort
  /\ errors = << "Unknown keyword 'alpha'" >>

\* C9: accept(e) of a filtered entry takes e out of filtered and puts it in
\* accepted; the filtered-purge at the end of an event removes exactly the
\* entries that are filtered and not accepted, so it keeps every entry that
\* was accepted after being filtered.
C9_AcceptRescuesFiltered ==
  [][ /\ (ops' = ops + 1 /\ last_op'[1] = "accept" /\ InSeq(last_op'[2], filtered))
        => (~InSeq(last_op'[2], filtered') /\ InSeq(last_op'[2], accepted'))
      /\ pc = "phase_end" =>
           /\ entries' = SelectSeq(entries,
                LAMBDA x : ~(InSeq(x, filtered) /\ ~InSeq(x, accepted)))
           /\ \A e \in EntryIds :
                (<<"Accepted previously filtered", e>> \in details /\ InSeq(e, entries))
                  => InSeq(e, entries') ]_vars

\* C9 witness: the filtered-purge of "filter" has run, and an entry that was
\* accepted after being filtered is still in the working set.
C9_Witness ==
  /\ pc = "events" /\ evi = 3
  /\ \E e \in EntryIds :
       /\ <<"Accepted previously filtered", e>> \in details
       /\ InSeq(e, entries)
       /\ InSeq(e, accepted) /\ ~InSeq(e, filtered)

\* C10: a second call of accept, filter, reject or fail on the same entry,
\* right after the first, changes none of the four lists and notifies
\* nobody; no list ever holds an entry twice, and manager.add_failed was
\* called exactly once for every failed entry.
C10_Idempotent ==
  [][ /\ ( /\ ops' = ops + 1
           /\ last_op'[1] \in {"accept", "filter", "reject", "fail"}
           /\ last_op'[1] = last_op[1]
           /\ last_op'[2] = last_op[2] )
        => ( /\ accepted' = accepted /\ filtered' = filtered
             /\ rejected' = rejected /\ failed' = failed
             /\ add_failed' = add_failed /\ details' = details )
      /\ NoDuplicates(accepted') /\ NoDuplicates(filtered')
      /\ NoDuplicates(rejected') /\ NoDuplicates(failed')
      /\ add_failed' = failed' ]_vars

\* C10 witness: a module has called fail(e) twice on an entry of the
\* working set and nothing else was called since the entries were
\* produced; e is failed once and was reported once.
C10_Witness ==
  \E e \in EntryIds :
    /\ last_op = <<"fail", e, "">>
    /\ ops = 3
    /\ failed = <<e>> /\ add_failed = <<e>>
    /\ InSeq(e, entries)
    /\ accepted = <<>> /\ filtered = <<>> /\ rejected = <<>>
    /\ ~abort

\* the values the holder assigned to url (entry['url'] = value),
\* construction included, in order
UrlsAssigned ==
  LET a == SelectSeq(assigned, LAMBDA x : x[1] = "set" /\ x[2] = "url")
  IN  [j \in 1..Len(a) |-> a[j][3]]

\* the holder changed the entry by item assignment only, and never assigned
\* original_url itself
OnlyAssigned ==
  \A j \in 1..Len(assigned) :
    assigned[j][1] = "set" /\ assigned[j][2] # "original_url"

\* C11: for an entry whose holder assigns url any number of times
\* (construction from a (title, url) pair included), changes the entry by
\* item assignment only and never assigns original_url itself, original_url
\* is absent until url is assigned and then equals the first value assigned
\* to url, whatever was assigned later.
C11_OriginalUrlIsFirstUrl ==
  OnlyAssigned =>
    IF UrlsAssigned = <<>>
    THEN "original_url" \notin DOMAIN entry
    ELSE /\ "original_url" \in DOMAIN entry
         /\ entry["original_url"] = UrlsAssigned[1]
         /\ entry["url"] = UrlsAssigned[Len(UrlsAssigned)]

\* C11 witness: an entry constructed from (title, url) had url assigned
\* again, to another value: url is the second value, original_url the first.
C11_Witness ==
  /\ OnlyAssigned
  /\ Len(assigned) >= 3 /\ assigned[1][2] = "title" /\ assigned[2][2] = "url"
  /\ Len(UrlsAssigned) = 2
  /\ UrlsAssigned[1] # UrlsAssigned[2]
  /\ entry["url"] = UrlsAssigned[2]
  /\ entry["original_url"] = UrlsAssigned[1]

\* C12 as stated: safe_str() called on an entry that has a title and no url
\* does not raise and returns a string.
C12_DescribeDoesNotRaise ==
  (described.called /\ "title" \in DOMAIN described.of
                    /\ "url" \notin DOMAIN described.of)
    => (described.raised = "" /\ described.value # "")

IsPrefix(s, t) == Len(s) <= Len(t) /\ SubSeq(t, 1, Len(s)) = s

\* C13: no step of the feed removes an entry from accepted, rejected or
\* failed (each list only has entries appended); an entry leaves filtered
\* only in a step where accept() puts that entry into accepted.
C13_ListsOnlyGrow ==
  [][ /\ IsPrefix(accepted, accepted')
      /\ IsPrefix(rejected, rejected')
      /\ IsPrefix(failed, failed')
      /\ \A e \in EntryIds :
           (InSeq(e, filtered) /\ ~InSeq(e, filtered'))
             => /\ last_op' = <<"accept", e, "Accepted previously filtered">>
                /\ ops' = ops + 1
                /\ ~InSeq(e, accepted) /\ InSeq(e, accepted')
                /\ filtered' = RemoveFirst(filtered, e) ]_vars

\* C13 witness: the run is over, every purge has run and emptied the working
\* set, and the rejected and the failed entry are still in their lists.
C13_Witness ==
  /\ pc = "terminated" /\ ~abort
  /\ entries = <<>> /\ purged = 1
  /\ Len(rejected) = 1 /\ Len(failed) = 1 /\ rejected # failed
  /\ Dispatched("terminate") = 1

\* C14: in a run flagged validate-only, execute() dispatches no regular
\* event and invokes none of their modules, whether validation collected
\* errors or not.
C14_ValidateOnlyRunsNothing ==
  options.validate =>
    /\ ~RegularInvoked
    /\ \A v \in RegularEvents : Dispatched(v) = 0
    /\ pc \notin {"events", "run_event", "phase_end"}
    /\ evi = 0

\* C14 witness: execute() has returned from a validate-only run whose
\* configuration passed validation; the abort flag is not set.
C14_Witness ==
  /\ options.validate
  /\ pc = "idle" /\ ~abort /\ errors = <<>>
  /\ InConfig(config, "A") /\ InConfig(config, "B")

\* execute() has returned from a run that was aborted inside a regular event
AbortedInEvent == pc = "idle" /\ abort /\ evi >= 1

\* C15: when execute() returns from a run aborted inside a regular event,
\* the working set has no rejected entry, no failed entry and no entry that
\* is filtered without being accepted.
C15_AbortLeavesPurged ==
  AbortedInEvent =>
    \A e \in EntryIds :
      InSeq(e, entries) =>
        /\ ~InSeq(e, rejected)
        /\ ~InSeq(e, failed)
        /\ ~(InSeq(e, filtered) /\ ~InSeq(e, accepted))

\* C15 witness: execute() has returned after a module of "filter" raised an
\* exception; the module had rejected one entry and filtered the other, and
\* both have been purged.
C15_Witness ==
  /\ AbortedInEvent /\ evi = 2
  /\ \E j \in 1..Len(trace) : trace[j].kind = "fault" /\ trace[j].event = "filter"
  /\ Len(rejected) = 1 /\ Len(filtered) = 1 /\ rejected # filtered
  /\ accepted = <<>> /\ failed = <<>>
  /\ entries = <<>> /\ purged = 2

\* the modules a dispatch of the abort event has to invoke, in dispatch order
AbortModules ==
  SelectSeq(sorted_modules(config, "abort"), LAMBDA n : applicable(config, n))

\* C16 as stated: whenever every dispatch has returned, the abort flag is
\* set if abort() was called, and every module of the abort event that is
\* configured or builtin was invoked once for every call of abort().
C16_AbortNotifiesAll ==
  (stack = <<>> /\ pc # "raised") =>
    /\ Dispatched("abort") > 0 => abort
    /\ \A j \in 1..Len(AbortModules) :
         Occurrences(InvokedFor("abort"), AbortModules[j]) = Dispatched("abort")

\* C17 as stated: while an event is being dispatched no entry leaves the
\* working set unless it is rejected or failed, so an entry filtered by one
\* module is still there for every later module of the event; entries that
\* are only filtered are removed by the step that follows the return of the
\* whole dispatch, after the last module's rejected- and failed-purge.
C17_FilteredPurgeAtEventEnd ==
  [][ /\ stack # <<>> =>
           \A e \in EntryIds :
             (InSeq(e, entries) /\ ~InSeq(e, entries'))
               => (InSeq(e, rejected) \/ InSeq(e, failed))
      /\ \A e \in EntryIds :
           ( /\ InSeq(e, entries) /\ ~InSeq(e, entries')
             /\ ~InSeq(e, rejected) /\ ~InSeq(e, failed) )
             => /\ pc = "phase_end" /\ stack = <<>>
                /\ InSeq(e, filtered) /\ ~InSeq(e, accepted) ]_vars

\* C17 amended: the feed itself removes entries that are only filtered in
\* the step that follows the return of the whole dispatch; while an event is
\* being dispatched an entry leaves the working set only if it is rejected
\* or failed, or if it is filtered, not accepted, and a module body calls
\* feed._purge() in that very step.
C17_FilteredPurgeDeferredByFeed ==
  [][ \A e \in EntryIds :
        ( /\ InSeq(e, entries) /\ ~InSeq(e, entries')
          /\ ~InSeq(e, rejected) /\ ~InSeq(e, failed) )
          => /\ InSeq(e, filtered) /\ ~InSeq(e, accepted)
             /\ \/ pc = "phase_end" /\ stack = <<>>
                \/ /\ stack # <<>> /\ stack[Len(stack)].pc = "body"
                   /\ ops' = ops + 1 /\ last_op' = <<"purge", 0, "">> ]_vars

\* C17 witness: the third module of "filter" is running; no module called
\* feed._purge(), and the entry a module before it filtered is still in the
\* working set, while the entry that module rejected has been purged.
C17_Witness ==
  /\ pc = "run_event" /\ evi = 2 /\ Len(stack) = 1
  /\ stack[1].pc = "body" /\ stack[1].i = 3
  /\ Len(InvokedFor("filter")) = 3
  /\ ops = 3 /\ purged = 1
  /\ \E e \in EntryIds :
       /\ <<"Filtered", e>> \in details
       /\ InSeq(e, filtered) /\ ~InSeq(e, accepted)
       /\ InSeq(e, entries)

\* C18: every module invoked so far, for any event (the regular ones,
\* terminate and abort), has its name among the keys of the configuration
\* or is builtin.
C18_OnlyConfiguredOrBuiltin ==
  \A j \in 1..Len(trace) :
    trace[j].kind = "invoke" =>
      \/ InConfig(config, trace[j].module)
      \/ ModuleByName(trace[j].module).builtin

\* C18 witness: a run without A in the configuration, aborted by a fault of
\* B in "filter": "input", which only A hooks, was dispatched without
\* invoking anything, and the abort event, where A comes first in dispatch
\* order, invoked C and not A.
C18_Witness ==
  /\ ~InConfig(config, "A")
  /\ pc = "terminated" /\ abort
  /\ Dispatched("input") = 1 /\ InvokedFor("input") = <<>>
  /\ InvokedFor("filter") = <<"B">>
  /\ sorted_modules(config, "abort")[1] = "A"
  /\ Dispatched("abort") = 1 /\ InvokedFor("abort") = <<"C">>

\* C19: when learning, no step dispatches "download" or "output" or invokes
\* one of their modules; the step of the event loop at such an event only
\* moves on to the next event, leaving the working set, the four lists and
\* the purge counter as they are; at every other event the step dispatches
\* the event over its modules in dispatch order, as without learning.
C19_LearnSkipsDownloadOutput ==
  [][ options.learn =>
        /\ \A k \in (Len(trace) + 1)..Len(trace') :
             trace'[k].event \notin {"download", "output"}
        /\ (pc = "events" /\ evi <= Len(events)) =>
             IF events[evi] \in {"download", "output"}
             THEN /\ entries' = entries /\ accepted' = accepted
                  /\ filtered' = filtered /\ rejected' = rejected
                  /\ failed' = failed /\ purged' = purged /\ abort' = abort
                  /\ stack' = stack /\ pc' = "events" /\ evi' = evi + 1
             ELSE /\ trace' = Append(trace, Rec("dispatch", events[evi], "-"))
                  /\ Len(stack') = 1
                  /\ stack'[1].event = events[evi]
                  /\ stack'[1].mods = sorted_modules(config, events[evi])
                  /\ stack'[1].i = 1 ]_vars

\* C19 witness: execute() has returned from a learning run: "filter" invoked
\* B and C, the working set is not empty, and "output", which the builtin C
\* hooks, was not dispatched.
C19_Witness ==
  /\ options.learn
  /\ pc = "idle" /\ ~abort /\ evi = Len(events) + 1
  /\ Dispatched("input") = 1
  /\ InvokedFor("filter") = <<"B", "C">>
  /\ entries # <<>>
  /\ Dispatched("output") = 0 /\ InvokedFor("output") = <<>>
  /\ Dispatched("download") = 0

\* C20: a ModuleWarning raised by a module call leaves the abort flag, the
\* working set and the four lists as they are; the rejected- and
\* failed-purge then run for that call, and unless the flag was set by
\* something else the module loop moves on to the next module exactly as
\* after a normal return: it invokes it if it is configured or builtin,
\* skips it otherwise, and after the last module returns to its caller.
C20_WarningDoesNotStop ==
  [][ /\ ( /\ stack # <<>> /\ stack[Len(stack)].pc = "body"
           /\ Len(stack') >= Len(stack)
           /\ stack'[Len(stack)].outcome = "warning" )
        => /\ abort' = abort /\ entries' = entries
           /\ Len(stack') = Len(stack)
           /\ accepted' = accepted /\ filtered' = filtered
           /\ rejected' = rejected /\ failed' = failed
           /\ trace' = trace /\ pc' = pc
           /\ stack'[Len(stack')].pc = "purge"
      /\ ( /\ stack # <<>> /\ stack[Len(stack)].pc = "purge"
           /\ stack[Len(stack)].outcome = "warning" )
        => /\ \A e \in EntryIds :
                InSeq(e, entries') <=>
                  (InSeq(e, entries) /\ ~InSeq(e, rejected) /\ ~InSeq(e, failed))
           /\ abort' = abort
           /\ ~abort =>
                /\ Len(stack') = Len(stack) /\ pc' = pc
                /\ stack'[Len(stack')].pc = "loop"
                /\ stack'[Len(stack')].i = stack[Len(stack)].i + 1
      /\ ( /\ stack # <<>> /\ stack[Len(stack)].pc = "loop"
           /\ stack[Len(stack)].outcome = "warning" )
        => LET f == stack[Len(stack)]
           IN  IF f.i > Len(f.mods)
               THEN /\ stack' = SubSeq(stack, 1, Len(stack) - 1)
                    /\ (Len(stack) = 1 /\ pc = "run_event") => pc' = "phase_end"
               ELSE IF InConfig(config, f.mods[f.i]) \/ ModuleByName(f.mods[f.i]).builtin
               THEN /\ trace' = Append(trace, Rec("invoke", f.event, f.mods[f.i]))
                    /\ stack'[Len(stack')].pc = "body"
               ELSE /\ stack'[Len(stack')].i = f.i + 1
                    /\ trace' = trace ]_vars

\* C20 witness: the first module of "filter" rejected an entry and raised a
\* ModuleWarning; the flag is not set, the rejected-purge has removed the
\* entry, and the module loop stands at the second module.
C20_Witness ==
  /\ pc = "run_event" /\ evi = 2 /\ Len(stack) = 1
  /\ stack[1].pc = "loop" /\ stack[1].outcome = "warning" /\ stack[1].i = 2
  /\ ~abort
  /\ purged = 1 /\ Len(rejected) = 1
  /\ \A e \in EntryIds : InSeq(e, rejected) => ~InSeq(e, entries)
  /\ entries # <<>>

\* the positions of the working set that hold an entry satisfying P
Positions(P(_)) == {j \in 1..Len(entries) : P(entries[j])}

\* C21: the purge counter changes only in the purge steps.  The step after a
\* module call removes the entries that are rejected or failed and adds to
\* the counter the number of rejected ones among them, so an entry removed
\* as failed only is not counted and one that is rejected and failed is
\* counted once; a filtered-purge, after an event or called by a module body,
\* adds the number of entries it removes, those filtered and not accepted.
C21_PurgeCounter ==
  [][ IF stack # <<>> /\ stack[Len(stack)].pc = "purge"
      THEN /\ Len(entries) - Len(entries')
                = Cardinality(Positions(LAMBDA x : InSeq(x, rejected) \/ InSeq(x, failed)))
           /\ purged' - purged
                = Cardinality(Positions(LAMBDA x : InSeq(x, rejected)))
      ELSE IF pc = "phase_end" \/ (ops' = ops + 1 /\ last_op' = <<"purge", 0, "">>)
      THEN /\ Len(entries) - Len(entries')
                = Cardinality(Positions(LAMBDA x : InSeq(x, filtered) /\ ~InSeq(x, accepted)))
           /\ purged' - purged = Len(entries) - Len(entries')
      ELSE purged' = purged ]_vars

\* C21 witness: a module produced NumEntries entries, rejected one of them
\* and failed the same one; its purge step has removed the entry and the
\* counter is 1.
C21_Witness ==
  /\ stack # <<>> /\ stack[Len(stack)].pc = "loop" /\ stack[Len(stack)].i > 1
  /\ ops = 3 /\ ~abort
  /\ Len(rejected) = 1 /\ rejected = failed
  /\ filtered = <<>> /\ accepted = <<>>
  /\ Len(entries) = NumEntries - 1
  /\ ~InSeq(rejected[1], entries)
  /\ purged = 1

\* the dispatches of the abort event that are active at once
AbortDepth == Cardinality({k \in 1..Len(stack) : stack[k].event = "abort"})

\* C22 as stated, for runs whose modules call no operation of the feed (so
\* no module calls abort() itself) and end every call by returning, by a
\* ModuleWarning or by an exception: a fault of a module of the abort event
\* is caught without abort() and the dispatch of the abort event entering
\* each other again and again, so the number of abort dispatches active at
\* once stays below MaxDepth, the deepest nesting followed.
C22_AbortDispatchesDoNotNest ==
  ops = 0 => AbortDepth < MaxDepth

\* C23 as stated, for invocations that begin while no module call is still
\* running (every enclosing call has ended, by an exception): when a module
\* is invoked, no entry of the working set is rejected or failed.
C23_NoRejectedAtInvocation ==
  [][ ( /\ Len(trace') = Len(trace) + 1
        /\ trace'[Len(trace')].kind = "invoke"
        /\ \A k \in 1..(Len(stack) - 1) : stack[k].pc # "body" )
      => \A e \in EntryIds :
           InSeq(e, entries) => (~InSeq(e, rejected) /\ ~InSeq(e, failed)) ]_vars

====
